---- MODULE Spec2Model ----
(***************************************************************************)
(* DarkTodo: the App component of src/unnamed/part_000 with its            *)
(* localStorage adapter.  One action per event handler; each action        *)
(* includes the React effects that the handler's state change triggers     *)
(* (saveTodos on a new `todos` array, saveTheme and the root class on a    *)
(* new `theme`).                                                           *)
(*                                                                         *)
(* Strings are modelled as sequences of characters so that trim() is       *)
(* computed.  An id `${Date.now()}-${suffix}` is the pair <<time, suffix>>.*)
(* A stored string is a record: the null that getItem returns for a        *)
(* missing key, a plain string, or the text JSON.stringify produced for    *)
(* an array (kept as the sequence of its JSON objects, booleans being the  *)
(* tokens "true" / "false").                                               *)
(***************************************************************************)
EXTENDS Integers, Sequences, FiniteSets, TLC

\* ---------------------------------------------------------------- bounds
MaxTodos == 2      \* addTodo is disabled once the collection has this many
MaxFailures == 1   \* page loads and handlers in which localStorage throws

\* ---------------------------------------------------------------- constants
STORAGE_ITEMS == "darktodo_items"
STORAGE_THEME == "darktodo_theme"

Filters == {"all", "active", "completed"}
Themes == {"light", "dark"}

\* the random suffixes Math.random().toString(36).slice(2, 9) can give
Suffixes == {"r1", "r2"}
\* the values Date.now() can give: the handlers of a behaviour run within
\* one millisecond, where only the suffix tells two ids apart
Times == {0}
Ids == Times \X Suffixes
NoId == <<-1, "none">>

\* what the user can have typed into the input field
Inputs ==
  { <<>>,
    <<" ", "\t">>,
    <<" ", "a", " ">> }

\* ---------------------------------------------------------------- strings
IsSpace(ch) == ch \in {" ", "\t"}

RECURSIVE TrimStart(_)
TrimStart(s) ==
  IF s = <<>> THEN <<>>
  ELSE IF IsSpace(Head(s)) THEN TrimStart(Tail(s)) ELSE s

RECURSIVE TrimEnd(_)
TrimEnd(s) ==
  IF s = <<>> THEN <<>>
  ELSE IF IsSpace(s[Len(s)]) THEN TrimEnd(SubSeq(s, 1, Len(s) - 1)) ELSE s

\* variant: the input is used as typed
Trim_Untrimmed(s) == s

\* String.prototype.trim
Trim(s) == TrimEnd(TrimStart(s))

\* ---------------------------------------------------------------- storage values
Null == [kind |-> "null", items |-> <<>>, str |-> ""]
Str(s) == [kind |-> "string", items |-> <<>>, str |-> s]
JsonArray(objs) == [kind |-> "json-array", items |-> objs, str |-> ""]

\* plain strings that are valid JSON but not an array
JsonNonArrayTexts == {"{}"}

\* variant: the `completed` flag is written as "false" whatever it is
ToJsonObject_NoFlag(t) ==
  [id |-> t.id, text |-> t.text, completed |-> "false", createdAt |-> t.createdAt]

\* one Todo as JSON.stringify writes it
ToJsonObject(t) ==
  [id |-> t.id, text |-> t.text,
   completed |-> IF t.completed THEN "true" ELSE "false",
   createdAt |-> t.createdAt]

\* variant: the token of `completed` is read as a truthy string
FromJsonObject_Truthy(o) ==
  [id |-> o.id, text |-> o.text, completed |-> TRUE, createdAt |-> o.createdAt]

\* one JSON object as JSON.parse reads it
FromJsonObject(o) ==
  [id |-> o.id, text |-> o.text,
   completed |-> (o.completed = "true"),
   createdAt |-> o.createdAt]

JSONstringify(todos) ==
  JsonArray([i \in 1..Len(todos) |-> ToJsonObject(todos[i])])

\* JSON.parse: threw, or the value (an array of objects, or something else)
JSONparse(raw) ==
  IF raw.kind = "json-array"
    THEN [threw |-> FALSE, isArray |-> TRUE,
          items |-> [i \in 1..Len(raw.items) |-> FromJsonObject(raw.items[i])]]
  ELSE IF raw.kind = "string" /\ raw.str \in JsonNonArrayTexts
    THEN [threw |-> FALSE, isArray |-> FALSE, items |-> <<>>]
  ELSE [threw |-> TRUE, isArray |-> FALSE, items |-> <<>>]

\* !raw
Falsy(raw) == raw.kind = "null" \/ (raw.kind = "string" /\ raw.str = "")

\* ---------------------------------------------------------------- helpers
\* the value loadTodos returns: isArray = FALSE stands for a parsed value
\* that is not an array.  readOk = FALSE: localStorage.getItem throws.
loadTodos(ls, readOk) ==
  IF ~readOk THEN [isArray |-> TRUE, items |-> <<>>]
  ELSE LET raw == ls[STORAGE_ITEMS] IN
    IF Falsy(raw) THEN [isArray |-> TRUE, items |-> <<>>]
    ELSE LET p == JSONparse(raw) IN
      IF p.threw THEN [isArray |-> TRUE, items |-> <<>>]
      ELSE [isArray |-> p.isArray, items |-> p.items]

\* writeOk = FALSE: localStorage.setItem throws and the catch swallows it
\* variant: the stored tasks that are not in the collection are kept
saveTodos_Merge(ls, todos, writeOk) ==
  IF ~writeOk THEN ls
  ELSE LET parsed == IF Falsy(ls[STORAGE_ITEMS]) THEN JSONparse(Str("x"))
                     ELSE JSONparse(ls[STORAGE_ITEMS])
           old == IF parsed.threw \/ ~parsed.isArray THEN <<>> ELSE parsed.items
           kept == SelectSeq(old, LAMBDA t :
                     \A i \in 1..Len(todos) : todos[i].id # t.id)
       IN [ls EXCEPT ![STORAGE_ITEMS] = JSONstringify(todos \o kept)]

\* variant: the collection is written under the key of the theme
saveTodos_ThemeKey(ls, todos, writeOk) ==
  IF writeOk THEN [ls EXCEPT ![STORAGE_THEME] = JSONstringify(todos)] ELSE ls

saveTodos(ls, todos, writeOk) ==
  IF writeOk THEN [ls EXCEPT ![STORAGE_ITEMS] = JSONstringify(todos)] ELSE ls

\* variant: any stored string is taken as the theme
loadTheme_AnyString(ls, readOk) ==
  IF ~readOk THEN "light"
  ELSE LET raw == ls[STORAGE_THEME] IN
    IF raw.kind = "string" THEN raw.str ELSE "light"

loadTheme(ls, readOk) ==
  IF ~readOk THEN "light"
  ELSE LET raw == ls[STORAGE_THEME] IN
    IF raw.kind = "string" /\ raw.str \in {"dark", "light"} THEN raw.str
    ELSE "light"

saveTheme(ls, theme, writeOk) ==
  IF writeOk THEN [ls EXCEPT ![STORAGE_THEME] = Str(theme)] ELSE ls

\* `${Date.now()}-${Math.random().toString(36).slice(2, 9)}`
generateId(time, suffix) == <<time, suffix>>

\* new Date().toISOString()
toISOString(time) == <<"iso", time>>

\* ---------------------------------------------------------------- state updaters
newTodo(text, time, suffix) ==
  [id |-> generateId(time, suffix), text |-> text,
   completed |-> FALSE, createdAt |-> toISOString(time)]

\* variant: the new task is appended, [...prev, newTodo]
addUpdater_Append(prev, t) == prev \o <<t>>

\* prev => [newTodo, ...prev]
addUpdater(prev, t) == <<t>> \o prev

\* variant: the matching task is marked completed instead of flipped
toggleUpdater_MarkDone(prev, id) ==
  [i \in 1..Len(prev) |->
     IF prev[i].id = id THEN [prev[i] EXCEPT !.completed = TRUE] ELSE prev[i]]

\* variant: every task is flipped, whatever its id
toggleUpdater_All(prev, id) ==
  [i \in 1..Len(prev) |-> [prev[i] EXCEPT !.completed = ~prev[i].completed]]

\* prev.map(t => t.id === id ? { ...t, completed: !t.completed } : t)
toggleUpdater(prev, id) ==
  [i \in 1..Len(prev) |->
     IF prev[i].id = id
       THEN [prev[i] EXCEPT !.completed = ~prev[i].completed]
       ELSE prev[i]]

\* variant: the test is inverted, prev.filter(t => t.id === id)
deleteUpdater_Inverted(prev, id) ==
  LET keep(t) == t.id = id IN SelectSeq(prev, keep)

\* prev.filter(t => t.id !== id)
deleteUpdater(prev, id) ==
  LET keep(t) == t.id # id IN SelectSeq(prev, keep)

\* variant: the test is inverted, prev.filter(t => t.completed)
clearUpdater_Inverted(prev) ==
  LET keep(t) == t.completed IN SelectSeq(prev, keep)

\* prev.filter(t => !t.completed)
clearUpdater(prev) ==
  LET keep(t) == ~t.completed IN SelectSeq(prev, keep)

\* prev === 'dark' ? 'light' : 'dark'
\* variant: the toggle always lands on 'dark'
themeUpdater_AlwaysDark(prev) == "dark"

themeUpdater(prev) == IF prev = "dark" THEN "light" ELSE "dark"

\* ---------------------------------------------------------------- derived state
\* variant: the 'completed' branch is missing and falls through to true
filteredTodos_NoCompleted(todos, filter) ==
  LET test(t) == IF filter = "active" THEN ~t.completed ELSE TRUE
  IN SelectSeq(todos, test)

\* todos.filter(t => ...) under the current filter
filteredTodos(todos, filter) ==
  LET test(t) ==
        IF filter = "active" THEN ~t.completed
        ELSE IF filter = "completed" THEN t.completed
        ELSE TRUE
  IN SelectSeq(todos, test)

activeCount(todos) ==
  LET test(t) == ~t.completed IN Len(SelectSeq(todos, test))

\* variant: the count of all tasks
completedCount_All(todos) == Len(todos)

completedCount(todos) ==
  LET test(t) == t.completed IN Len(SelectSeq(todos, test))

\* ---------------------------------------------------------------- state
VARIABLES
  todos,         \* useState<Todo[]>
  theme,         \* useState<Theme>
  filter,        \* useState<Filter>
  inputValue,    \* useState('')
  crashed,       \* rendering threw (todos is not an array): nothing is mounted
  rootDark,      \* document.documentElement carries the class 'dark'
  localStorage,  \* key -> stored string
  saved,         \* the last saveTodos call of this page wrote the store
  failures,      \* page loads and handlers in which localStorage threw
  lastOp,        \* the last handler that set todos, with its arguments
  before,        \* todos as it was when that handler started
  repeated,      \* lastOp is a toggle or delete, and so was the handler
                 \* that set todos before it, with the same id
  twoBack,       \* if repeated: todos as it was when the earlier call started
  otherTab       \* a second tab of the application on the same localStorage

vars == <<todos, theme, filter, inputValue, crashed, rootDark, localStorage,
          saved, failures, lastOp, before, repeated, twoBack,
          otherTab>>

\* lastOp and before describe the last handler that set `todos` (or the last
\* page load): input is what inputValue held when addTodo ran, readOk and
\* wasSaved are the outcome of loadTodos' read and the value of `saved`
\* when the page was reloaded.
Op(kind, id, src, input, readOk, wasSaved) ==
  [kind |-> kind, id |-> id, src |-> src, input |-> input,
   readOk |-> readOk, wasSaved |-> wasSaved]

\* bookkeeping of a handler that sets todos
Record(op) ==
  /\ lastOp' = op
  /\ before' = todos
  /\ repeated' = (op = lastOp /\ op.kind \in {"toggle", "delete"})
  /\ twoBack' = IF repeated' THEN before ELSE <<>>

\* localStorage may throw in fewer than MaxFailures page loads and handlers:
\* what one of them adds to `failures`
Errors(ok) == IF ok THEN 0 ELSE 1

\* ---------------------------------------------------------------- page load
\* what the store can hold when the page is first opened
StoredTodoA == [id |-> <<0, "r1">>, text |-> <<"a">>,
                completed |-> "false", createdAt |-> <<"iso", 0>>]
StoredTodoB == [id |-> <<0, "r1">>, text |-> <<"a">>,
                completed |-> "true", createdAt |-> <<"iso", 0>>]

InitialItems ==
  { Null, Str(""), Str("{oops"), Str("{}"),
    JsonArray(<<>>), JsonArray(<<StoredTodoA>>),
    JsonArray(<<StoredTodoB, StoredTodoA>>) }

InitialThemes == { Null, Str("dark"), Str("light"), Str("purple") }

InitialStores ==
  { [k \in {STORAGE_ITEMS, STORAGE_THEME} |->
       IF k = STORAGE_ITEMS THEN i ELSE t] :
    i \in InitialItems, t \in InitialThemes }

\* What localStorage does during one page load, as <<getItem of the items,
\* getItem of the theme, setItem of the theme, setItem of the items>> with
\* TRUE for a call that returns: every call returns; the items do not fit
\* (quota); no write is accepted; the store is disabled and every call throws.
LoadOutcomes ==
  { <<TRUE, TRUE, TRUE, TRUE>>, <<TRUE, TRUE, TRUE, FALSE>>,
    <<TRUE, TRUE, FALSE, FALSE>>, <<FALSE, FALSE, FALSE, FALSE>> }

\* the second tab before it is opened
ClosedTab == [open |-> FALSE, todos |-> <<>>]

\* Mounting App over the store ls: the two lazy initialisers, the first
\* render, then (if it did not throw) the theme effect and the todos effect.
Mount(ls, readItems, readTheme, writeTheme, writeItems) ==
  LET loaded == loadTodos(ls, readItems)
      th == loadTheme(ls, readTheme)
  IN IF ~loaded.isArray
       THEN [todos |-> <<>>, theme |-> th, crashed |-> TRUE,
             rootDark |-> FALSE, saved |-> FALSE, localStorage |-> ls,
             errors |-> Errors(readItems /\ readTheme)]
       ELSE [todos |-> loaded.items, theme |-> th, crashed |-> FALSE,
             rootDark |-> (th = "dark"), saved |-> writeItems,
             localStorage |->
               saveTodos(saveTheme(ls, th, writeTheme), loaded.items, writeItems),
             errors |-> Errors(readItems /\ readTheme /\ writeTheme
                                  /\ writeItems)]

Init ==
  \E ls \in InitialStores :
  \E o \in LoadOutcomes :
    LET readItems == o[1]
        readTheme == o[2]
        writeTheme == o[3]
        writeItems == o[4]
        m == Mount(ls, readItems, readTheme, writeTheme, writeItems) IN
      /\ m.errors <= MaxFailures
      /\ m.crashed => (writeTheme /\ writeItems)
      /\ todos = m.todos
      /\ theme = m.theme
      /\ crashed = m.crashed
      /\ rootDark = m.rootDark
      /\ saved = m.saved
      /\ localStorage = m.localStorage
      /\ failures = m.errors
      /\ filter = "all"
      /\ inputValue = <<>>
      /\ lastOp = Op("load", NoId, "none", <<>>, readItems, FALSE)
      /\ before = <<>>
      /\ repeated = FALSE
      /\ twoBack = <<>>
      /\ otherTab = ClosedTab

\* page.reload(): the component state is dropped and App mounts again
Reload ==
  \E o \in LoadOutcomes :
    LET readItems == o[1]
        readTheme == o[2]
        writeTheme == o[3]
        writeItems == o[4]
        m == Mount(localStorage, readItems, readTheme, writeTheme, writeItems) IN
      /\ failures + m.errors <= MaxFailures
      /\ m.crashed => (writeTheme /\ writeItems)
      /\ todos' = m.todos
      /\ theme' = m.theme
      /\ crashed' = m.crashed
      /\ rootDark' = m.rootDark
      /\ saved' = m.saved
      /\ localStorage' = m.localStorage
      /\ failures' = failures + m.errors
      /\ filter' = "all"
      /\ inputValue' = <<>>
      /\ Record(Op("reload", NoId, "none", <<>>, readItems, saved))
      /\ UNCHANGED otherTab

\* ---------------------------------------------------------------- handlers
\* variant: the write comes first and stores the array as it was
TodosEffect_WriteBeforeUpdate(newTodos) ==
  \E writeOk \in BOOLEAN :
    /\ failures + Errors(writeOk) <= MaxFailures
    /\ todos' = newTodos
    /\ localStorage' = saveTodos(localStorage, todos, writeOk)
    /\ saved' = writeOk
    /\ failures' = failures + Errors(writeOk)

\* variant: the new array is kept only when the write went through
TodosEffect_RollbackOnFail(newTodos) ==
  \E writeOk \in BOOLEAN :
    /\ failures + Errors(writeOk) <= MaxFailures
    /\ todos' = IF writeOk THEN newTodos ELSE todos
    /\ localStorage' = saveTodos(localStorage, newTodos, writeOk)
    /\ saved' = writeOk
    /\ failures' = failures + Errors(writeOk)

\* the todos effect: runs after every render in which `todos` is a new array
TodosEffect(newTodos) ==
  \E writeOk \in BOOLEAN :
    /\ failures + Errors(writeOk) <= MaxFailures
    /\ todos' = newTodos
    /\ localStorage' = saveTodos(localStorage, newTodos, writeOk)
    /\ saved' = writeOk
    /\ failures' = failures + Errors(writeOk)

\* variant: the input field keeps its text after an accepted add
addTodo_KeepsInput(src) ==
  /\ ~crashed
  /\ LET text == Trim(inputValue) IN
       IF text = <<>>
         THEN UNCHANGED <<todos, localStorage, saved, failures, inputValue>>
         ELSE \E time \in Times, suffix \in Suffixes :
                /\ Len(todos) < MaxTodos
                /\ TodosEffect(addUpdater(todos, newTodo(text, time, suffix)))
                /\ UNCHANGED inputValue
  /\ Record(Op("add", NoId, src, inputValue, TRUE, FALSE))
  /\ UNCHANGED <<theme, filter, crashed, rootDark, otherTab>>

\* addTodo, from the Add button (src = "button") or from handleKeyDown with
\* e.key === 'Enter' (src = "enter")
addTodo(src) ==
  /\ ~crashed
  /\ LET text == Trim(inputValue) IN
       IF text = <<>>
         THEN UNCHANGED <<todos, localStorage, saved, failures, inputValue>>
         ELSE \E time \in Times, suffix \in Suffixes :
                /\ Len(todos) < MaxTodos
                /\ TodosEffect(addUpdater(todos, newTodo(text, time, suffix)))
                /\ inputValue' = <<>>
  /\ Record(Op("add", NoId, src, inputValue, TRUE, FALSE))
  /\ UNCHANGED <<theme, filter, crashed, rootDark, otherTab>>

toggleTodo(id) ==
  /\ ~crashed
  /\ TodosEffect(toggleUpdater(todos, id))
  /\ Record(Op("toggle", id, "none", <<>>, TRUE, FALSE))
  /\ UNCHANGED <<theme, filter, inputValue, crashed, rootDark, otherTab>>

deleteTodo(id) ==
  /\ ~crashed
  /\ TodosEffect(deleteUpdater(todos, id))
  /\ Record(Op("delete", id, "none", <<>>, TRUE, FALSE))
  /\ UNCHANGED <<theme, filter, inputValue, crashed, rootDark, otherTab>>

clearCompleted ==
  /\ ~crashed
  /\ TodosEffect(clearUpdater(todos))
  /\ Record(Op("clear", NoId, "none", <<>>, TRUE, FALSE))
  /\ UNCHANGED <<theme, filter, inputValue, crashed, rootDark, otherTab>>

\* toggleTheme with the theme effect
toggleTheme ==
  /\ ~crashed
  /\ theme' = themeUpdater(theme)
  /\ rootDark' = (theme' = "dark")
  /\ \E writeOk \in BOOLEAN :
       /\ failures + Errors(writeOk) <= MaxFailures
       /\ localStorage' = saveTheme(localStorage, theme', writeOk)
       /\ failures' = failures + Errors(writeOk)
  /\ UNCHANGED <<todos, filter, inputValue, crashed, saved, lastOp, before,
                 otherTab,
                 repeated, twoBack>>

\* variant: the selected filter is also written to the store
setFilter_Persisted(f) ==
  /\ ~crashed
  /\ filter' = f
  /\ localStorage' = [k \in DOMAIN localStorage \cup {"darktodo_filter"} |->
                        IF k = "darktodo_filter" THEN Str(f)
                        ELSE localStorage[k]]
  /\ UNCHANGED <<todos, theme, inputValue, crashed, rootDark, otherTab,
                 saved, failures, lastOp, before, repeated, twoBack>>

\* onClick={() => setFilter(f)}
setFilter(f) ==
  /\ ~crashed
  /\ filter' = f
  /\ UNCHANGED <<todos, theme, inputValue, crashed, rootDark, localStorage,
                 otherTab,
                 saved, failures, lastOp, before, repeated, twoBack>>

\* onChange={e => setInputValue(e.target.value)}
setInputValue(v) ==
  /\ ~crashed
  /\ inputValue' = v
  /\ UNCHANGED <<todos, theme, filter, crashed, rootDark, localStorage,
                 otherTab,
                 saved, failures, lastOp, before, repeated, twoBack>>

\* ------------------------------------------------------------------ render
\* what the mounted component shows (nothing is shown once rendering threw)
\* {filteredTodos.length === 0 ? <EmptyState .../> : ...}
EmptyStateShown == ~crashed /\ Len(filteredTodos(todos, filter)) = 0

\* {todos.length > 0 && (<div> ... active-count ... </div>)}
FooterShown == ~crashed /\ Len(todos) > 0

\* {completedCount > 0 && (<button onClick={clearCompleted} ...>)}, inside
\* the footer
ClearCompletedShown == FooterShown /\ completedCount(todos) > 0

Next ==
  \/ \E src \in {"button", "enter"} : addTodo(src)
  \/ \E id \in Ids : toggleTodo(id)
  \/ \E id \in Ids : deleteTodo(id)
  \/ clearCompleted
  \/ toggleTheme
  \/ \E f \in Filters : setFilter(f)
  \/ \E v \in Inputs : setInputValue(v)
  \/ Reload

Spec == Init /\ [][Next]_vars

\* --------------------------------------------------------------- second tab
\* The same application in another tab of the browser. The two tabs share
\* localStorage and nothing else; no handler listens to the storage event.

\* the other tab is opened or reloaded (its localStorage calls return)
OtherTabLoad ==
  LET m == Mount(localStorage, TRUE, TRUE, TRUE, TRUE) IN
    /\ ~m.crashed
    /\ otherTab' = [open |-> TRUE, todos |-> m.todos]
    /\ localStorage' = m.localStorage
    /\ UNCHANGED <<todos, theme, filter, inputValue, crashed, rootDark,
                   saved, failures, lastOp, before, repeated, twoBack>>

\* the todos effect of the other tab
OtherTabEffect(newTodos) ==
  /\ otherTab.open
  /\ otherTab' = [otherTab EXCEPT !.todos = newTodos]
  /\ localStorage' = saveTodos(localStorage, newTodos, TRUE)
  /\ UNCHANGED <<todos, theme, filter, inputValue, crashed, rootDark,
                 saved, failures, lastOp, before, repeated, twoBack>>

\* addTodo in the other tab, with a text typed there
OtherTabAdd ==
  \E v \in Inputs, time \in Times, suffix \in Suffixes :
    /\ Trim(v) # <<>>
    /\ Len(otherTab.todos) < MaxTodos
    /\ OtherTabEffect(addUpdater(otherTab.todos, newTodo(Trim(v), time, suffix)))

\* toggleTodo in the other tab
OtherTabToggle(id) == OtherTabEffect(toggleUpdater(otherTab.todos, id))

\* Both tabs are open on a store whose calls return: the first tab as after
\* a page load without exceptions, and no handler's write throws later (the
\* count of failures starts at its bound).
InitTabs ==
  \E ls \in InitialStores :
    LET m == Mount(ls, TRUE, TRUE, TRUE, TRUE) IN
      /\ ~m.crashed
      /\ todos = m.todos
      /\ theme = m.theme
      /\ crashed = FALSE
      /\ rootDark = m.rootDark
      /\ saved = m.saved
      /\ localStorage = m.localStorage
      /\ failures = MaxFailures
      /\ filter = "all"
      /\ inputValue = <<>>
      /\ lastOp = Op("load", NoId, "none", <<>>, TRUE, FALSE)
      /\ before = <<>>
      /\ repeated = FALSE
      /\ twoBack = <<>>
      /\ otherTab = ClosedTab

NextTabs ==
  \/ \E src \in {"button", "enter"} : addTodo(src)
  \/ \E v \in Inputs : setInputValue(v)
  \/ \E id \in Ids : toggleTodo(id)
  \/ OtherTabLoad
  \/ OtherTabAdd
  \/ \E id \in Ids : OtherTabToggle(id)

SpecTabs == InitTabs /\ [][NextTabs]_vars

\* ---------------------------------------------------------------- properties
\* r is c restricted to the positions in S, in the order of c
IsSubseqAt(r, c, S) ==
  /\ Len(r) = Cardinality(S)
  /\ \A j \in S : r[Cardinality({k \in S : k <= j})] = c[j]

\* s has a character that is not white space
HasText(s) == \E i \in 1..Len(s) : ~IsSpace(s[i])

\* t is s without its leading and trailing white space
IsTrimOf(t, s) ==
  \E i \in 1..Len(s), j \in 1..Len(s) :
    /\ i <= j
    /\ ~IsSpace(s[i])
    /\ ~IsSpace(s[j])
    /\ \A k \in 1..Len(s) : (k < i \/ k > j) => IsSpace(s[k])
    /\ t = SubSeq(s, i, j)

Positions(c) == 1..Len(c)
Matching(c, id) == {i \in Positions(c) : c[i].id = id}

\* C1: in every reachable state the ids of the tasks in the collection are
\* pairwise distinct.
C1_DistinctIds ==
  ~crashed =>
    \A i \in Positions(todos), j \in Positions(todos) :
      i # j => todos[i].id # todos[j].id

\* C2: add with a text whose trimmed form is non-empty yields the collection
\* with one more task: the new task first, its text the trimmed input and
\* completed = false, followed by the previous collection in its order.
C2_AddPrepends ==
  (lastOp.kind = "add" /\ HasText(lastOp.input)) =>
    /\ ~crashed
    /\ Len(todos) = Len(before) + 1
    /\ IsTrimOf(todos[1].text, lastOp.input)
    /\ todos[1].completed = FALSE
    /\ \A i \in Positions(before) : todos[i + 1] = before[i]

\* an add, typed with surrounding white space, onto a collection of one
\* task: the new task comes first, the earlier one second
C2_Witness ==
  /\ lastOp.kind = "add"
  /\ lastOp.input = <<" ", "a", " ">>
  /\ Len(before) = 1
  /\ Len(todos) = 2
  /\ todos[2] = before[1]
  /\ todos[1].text = <<"a">>
  /\ todos[1].id # todos[2].id

\* C3: add with an empty or white-space-only text leaves the collection as
\* it was, from the Add button and from the Enter key alike.
C3_BlankAddIsNoop ==
  (lastOp.kind = "add" /\ ~HasText(lastOp.input)) =>
    /\ ~crashed
    /\ lastOp.src \in {"button", "enter"}
    /\ todos = before

\* Enter pressed on white space only, with a task in the collection
C3_Witness ==
  /\ lastOp.kind = "add"
  /\ lastOp.src = "enter"
  /\ lastOp.input = <<" ", "\t">>
  /\ Len(before) = 1
  /\ todos = before
\* C4: toggle applied twice with the same id gives back the collection it
\* started from.
C4_ToggleTwice ==
  (lastOp.kind = "toggle" /\ repeated) => (~crashed /\ todos = twoBack)

\* two toggles of a task that shares the collection with another task
C4_Witness ==
  /\ lastOp.kind = "toggle"
  /\ repeated
  /\ Len(todos) = 2
  /\ Matching(todos, lastOp.id) # {}
  /\ Matching(todos, lastOp.id) # Positions(todos)
  /\ before # todos
  /\ twoBack = todos

\* C5: toggle keeps the length and the order, every id, text and createdAt,
\* and the completed flag of every task with another id; it flips the flag
\* of the tasks with the id; with no such task the collection is unchanged.
C5_ToggleFrame ==
  lastOp.kind = "toggle" =>
    /\ ~crashed
    /\ Len(todos) = Len(before)
    /\ \A i \in Positions(before) :
         /\ todos[i].id = before[i].id
         /\ todos[i].text = before[i].text
         /\ todos[i].createdAt = before[i].createdAt
         /\ todos[i].completed = (IF before[i].id = lastOp.id
                                    THEN ~before[i].completed
                                    ELSE before[i].completed)
    /\ (Matching(before, lastOp.id) = {} => todos = before)

\* the first of two tasks was toggled to completed, the second was not touched
C5_Witness ==
  /\ lastOp.kind = "toggle"
  /\ Len(before) = 2
  /\ before[1].id = lastOp.id
  /\ before[2].id # lastOp.id
  /\ ~before[1].completed
  /\ todos[1].completed
  /\ todos[2] = before[2]

\* C6: delete keeps exactly the tasks with another id, in their order; with
\* no task of that id, and so on a second delete of the same id, the
\* collection is unchanged.
C6_DeleteRemoves ==
  lastOp.kind = "delete" =>
    /\ ~crashed
    /\ IsSubseqAt(todos, before, Positions(before) \ Matching(before, lastOp.id))
    /\ Matching(todos, lastOp.id) = {}
    /\ (Matching(before, lastOp.id) = {} => todos = before)
    /\ (repeated => todos = before)

\* one of two tasks was deleted, and the same delete was then repeated
C6_Witness ==
  /\ lastOp.kind = "delete"
  /\ repeated
  /\ Len(twoBack) = 2
  /\ Matching(twoBack, lastOp.id) # {}
  /\ Len(before) = 1
  /\ before[1] \in {twoBack[1], twoBack[2]}
  /\ todos = before

\* C7: clearCompleted keeps exactly the tasks with completed = false, in
\* their order: completedCount becomes 0, activeCount stays, and a collection
\* without completed tasks is unchanged.
C7_ClearCompleted ==
  lastOp.kind = "clear" =>
    /\ ~crashed
    /\ IsSubseqAt(todos, before, {i \in Positions(before) : ~before[i].completed})
    /\ completedCount(todos) = 0
    /\ activeCount(todos) = activeCount(before)
    /\ ((\A i \in Positions(before) : ~before[i].completed) => todos = before)

\* a completed task was cleared from in front of an active one
C7_Witness ==
  /\ lastOp.kind = "clear"
  /\ Len(before) = 2
  /\ before[1].completed
  /\ ~before[2].completed
  /\ todos = <<before[2]>>

\* C8: the list shown under 'all' is the collection; the lists shown under
\* 'active' and 'completed' are the collection restricted to the positions
\* with completed = false and completed = true, so every position is in
\* exactly one of the two.
C8_FilterPartition ==
  ~crashed =>
    LET A == {i \in Positions(todos) : todos[i].completed = FALSE}
        C == {i \in Positions(todos) : todos[i].completed = TRUE}
    IN /\ filteredTodos(todos, "all") = todos
       /\ IsSubseqAt(filteredTodos(todos, "active"), todos, A)
       /\ IsSubseqAt(filteredTodos(todos, "completed"), todos, C)
       /\ A \cup C = Positions(todos)
       /\ A \cap C = {}
       /\ Len(filteredTodos(todos, "active"))
            + Len(filteredTodos(todos, "completed")) = Len(todos)

\* the 'completed' filter is selected over a completed and an active task
C8_Witness ==
  /\ ~crashed
  /\ filter = "completed"
  /\ Len(todos) = 2
  /\ ~todos[1].completed
  /\ todos[2].completed
  /\ filteredTodos(todos, filter) = <<todos[2]>>

\* C9: in every reachable state activeCount + completedCount is the length
\* of the collection.
C9_CountsSum ==
  ~crashed => activeCount(todos) + completedCount(todos) = Len(todos)

\* after a toggle, one task is active and one is completed
C9_Witness ==
  /\ ~crashed
  /\ lastOp.kind = "toggle"
  /\ Len(todos) = 2
  /\ activeCount(todos) = 1
  /\ completedCount(todos) = 1

\* C10 as stated: when the last write of the collection succeeded, a reload
\* gives back the collection that was in memory.
C10_ReloadRestores ==
  (lastOp.kind = "reload" /\ lastOp.wasSaved) => (~crashed /\ todos = before)

\* C10 amended: when the last write of the collection succeeded and the
\* read of the task record at the reload does not throw, a reload gives
\* back the collection that was in memory: same tasks, order and flags.
C10_ReloadRestoresIfRead ==
  (lastOp.kind = "reload" /\ lastOp.wasSaved /\ lastOp.readOk) =>
    (~crashed /\ todos = before)

\* a reload brought back two tasks, the newer one completed
C10_Witness ==
  /\ lastOp.kind = "reload"
  /\ lastOp.wasSaved
  /\ lastOp.readOk
  /\ Len(todos) = 2
  /\ todos[1].completed
  /\ ~todos[2].completed
  /\ todos = before
\* C11: loadTodos called after a saveTodos that wrote the collection returns
\* that collection, the empty collection included.
C11_SaveLoadRoundTrip ==
  saved =>
    /\ ~crashed
    /\ loadTodos(localStorage, TRUE) = [isArray |-> TRUE, items |-> todos]

\* a collection of a completed and an active task was written and reads back
C11_Witness ==
  /\ saved
  /\ lastOp.kind = "toggle"
  /\ Len(todos) = 2
  /\ todos[1].completed
  /\ ~todos[2].completed
  /\ loadTodos(localStorage, TRUE).items = todos

\* C12: loadTodos never raises and always returns a sequence of tasks: the
\* empty sequence for a missing key, for a failing read and for every stored
\* content that is not a serialized sequence of tasks.
C12_LoadReturnsSequence ==
  /\ ~crashed
  /\ \A readOk \in BOOLEAN :
       LET r == loadTodos(localStorage, readOk) IN
         /\ r.isArray
         /\ (~readOk \/ localStorage[STORAGE_ITEMS].kind # "json-array")
              => r.items = <<>>

\* C13: loadTheme returns 'dark' only for the stored value 'dark' and 'light'
\* for every other stored value, for an absent key and for a failing read;
\* the theme in memory is always one of the two literals.
C13_LoadThemeDefault ==
  /\ theme \in Themes
  /\ \A readOk \in BOOLEAN :
       loadTheme(localStorage, readOk) =
         IF readOk /\ localStorage[STORAGE_THEME] = Str("dark")
           THEN "dark" ELSE "light"

\* the page was loaded over a theme record holding 'purple' (the write back
\* of the theme threw, so the record is still there): the theme is 'light'
C13_Witness ==
  /\ lastOp.kind = "load"
  /\ localStorage[STORAGE_THEME] = Str("purple")
  /\ loadTheme(localStorage, TRUE) = "light"
  /\ theme = "light"
  /\ ~rootDark
\* what a handler makes of the collection `c`, whatever its write does
AfterOp(c, op) ==
  CASE op.kind = "toggle" -> {toggleUpdater(c, op.id)}
    [] op.kind = "delete" -> {deleteUpdater(c, op.id)}
    [] op.kind = "clear" -> {clearUpdater(c)}
    [] op.kind = "add" ->
         IF Trim(op.input) = <<>> THEN {c}
         ELSE {addUpdater(c, newTodo(Trim(op.input), time, suffix)) :
                 time \in Times, suffix \in Suffixes}
    [] OTHER -> {c}

\* the other one of the two themes
OtherTheme(t) == IF t = "light" THEN "dark" ELSE "light"

\* a step of one of the handlers that set todos (the handler and its
\* argument are the ones the step records in lastOp)
TaskStep ==
  \/ lastOp'.kind = "add" /\ lastOp'.src \in {"button", "enter"}
       /\ addTodo(lastOp'.src)
  \/ lastOp'.kind = "toggle" /\ lastOp'.id \in Ids /\ toggleTodo(lastOp'.id)
  \/ lastOp'.kind = "delete" /\ lastOp'.id \in Ids /\ deleteTodo(lastOp'.id)
  \/ lastOp'.kind = "clear" /\ clearCompleted

\* a step of one of the handlers that write to the store
HandlerStep == TaskStep \/ toggleTheme

\* C14: a store write that fails never raises and never changes the state in
\* memory: after a handler whose write threw, the collection and the theme
\* are what they are after the same handler with a write that went through,
\* the store is as it was, and the application keeps running.
C14_FailedWriteKeepsMemory ==
  /\ [](lastOp.kind \in {"add", "toggle", "delete", "clear"}
          => (~crashed /\ todos \in AfterOp(before, lastOp)))
  /\ [][(failures' # failures /\ HandlerStep)
          => /\ localStorage' = localStorage
             /\ ~crashed'
             /\ toggleTheme
                  => /\ theme' = OtherTheme(theme)
                     /\ rootDark' = (theme' = "dark")
                     /\ todos' = todos]_vars

\* the write of a toggle threw: memory holds the toggled collection, the
\* store still holds the collection as it was before
C14_Witness ==
  /\ lastOp.kind = "toggle"
  /\ ~saved
  /\ failures >= 1
  /\ todos # before
  /\ todos = toggleUpdater(before, lastOp.id)
  /\ localStorage[STORAGE_ITEMS] = JSONstringify(before)
  /\ ~crashed

\* C15: toggleTheme maps 'light' to 'dark' and 'dark' to 'light', so applying
\* it twice gives the theme it started from.
C15_ToggleThemeInvolution ==
  /\ themeUpdater(theme) = OtherTheme(theme)
  /\ themeUpdater(themeUpdater(theme)) = theme

\* the theme was toggled from the stored 'light' to 'dark' (the write threw,
\* so the record still shows where the toggle started)
C15_Witness ==
  /\ theme = "dark"
  /\ rootDark
  /\ localStorage[STORAGE_THEME] = Str("light")
  /\ themeUpdater(theme) = "light"

\* C16: after the initial load and after every theme toggle the document root
\* carries the class 'dark' exactly when the theme in memory is 'dark'.
C16_RootClassMatchesTheme == rootDark = (theme = "dark")
\* C17: the task record and the theme record are independent: loadTodos
\* returns the same for every content of the theme record and loadTheme the
\* same for every content of the task record; no handler of the tasks writes
\* the theme key, and toggleTheme does not write the task key.
C17_RecordsIndependent ==
  /\ [](\A readOk \in BOOLEAN :
          /\ \A t \in InitialThemes :
               loadTodos([localStorage EXCEPT ![STORAGE_THEME] = t], readOk)
                 = loadTodos(localStorage, readOk)
          /\ \A i \in InitialItems :
               loadTheme([localStorage EXCEPT ![STORAGE_ITEMS] = i], readOk)
                 = loadTheme(localStorage, readOk))
  /\ [][/\ localStorage'[STORAGE_THEME] # localStorage[STORAGE_THEME]
             => ~TaskStep
        /\ localStorage'[STORAGE_ITEMS] # localStorage[STORAGE_ITEMS]
             => ~toggleTheme]_vars

\* a toggle wrote the task record next to a theme record that still holds
\* 'purple', and the theme is the one loaded from it
C17_Witness ==
  /\ lastOp.kind = "toggle"
  /\ saved
  /\ todos # before
  /\ localStorage[STORAGE_ITEMS] = JSONstringify(todos)
  /\ localStorage[STORAGE_THEME] = Str("purple")
  /\ theme = "light"
\* C18: the filter is 'all' after every load, whatever was selected before a
\* reload; it is never written to the store; selecting a filter changes
\* neither the collection nor either stored record.
C18_FilterTransient ==
  /\ filter = "all"
  /\ [](/\ DOMAIN localStorage = {STORAGE_ITEMS, STORAGE_THEME}
        /\ \A k \in DOMAIN localStorage, f \in Filters :
             localStorage[k] # Str(f))
  /\ [][/\ (lastOp'.kind = "reload" /\ filter' # "all") => ~Reload
        /\ (\E f \in Filters : setFilter(f))
             => (todos' = todos /\ localStorage' = localStorage)]_vars

\* after a reload, which left the filter at 'all', the filter 'completed' was
\* selected: the collection and the store are as the reload left them
C18_Witness ==
  /\ lastOp.kind = "reload"
  /\ filter = "completed"
  /\ Len(todos) = 2
  /\ todos = before
  /\ saved
  /\ localStorage[STORAGE_ITEMS] = JSONstringify(todos)
\* C19, as claimed: in every reachable state of a session the store holds
\* the collection in memory or an earlier one of the session, never one that
\* memory has not held. Stated for the states in which the session has held
\* one collection only (no handler has set todos since the page load): a
\* collection the store holds there must be the one in memory.
C19_StoreNeverAhead ==
  LET stored == loadTodos(localStorage, TRUE) IN
    (lastOp.kind \in {"load", "reload"} /\ stored.isArray)
      => stored.items = todos

\* C19, amended: after a page load that read the store, a collection the
\* store holds is the one in memory until a handler sets todos; the
\* collection in memory is updated before the write is attempted: whenever the task record changes it becomes the serialization
\* of the collection memory holds after the step, and when the write of a
\* handler throws while the store was in step with memory (as when the page
\* dies between the update and the write), the record is left whole, holding
\* the collection as it was before that handler.
C19_WriteFollowsUpdate ==
  /\ [](LET stored == loadTodos(localStorage, TRUE) IN
          (lastOp.kind \in {"load", "reload"} /\ lastOp.readOk
             /\ stored.isArray) => stored.items = todos)
  /\ [][/\ localStorage'[STORAGE_ITEMS] # localStorage[STORAGE_ITEMS]
             => /\ ~crashed'
                /\ localStorage'[STORAGE_ITEMS] = JSONstringify(todos')
        /\ (failures' # failures /\ saved /\ TaskStep)
             => /\ localStorage'[STORAGE_ITEMS] = JSONstringify(todos)
                /\ todos' \in AfterOp(todos, lastOp')]_vars

\* the write of a delete threw: memory is one operation ahead of the store,
\* which holds the whole collection as it was before the delete
C19_Witness ==
  /\ lastOp.kind = "delete"
  /\ ~saved
  /\ Len(before) = 2
  /\ Len(todos) = 1
  /\ localStorage[STORAGE_ITEMS] = JSONstringify(before)
  /\ loadTodos(localStorage, TRUE).items = before
\* a step in which the other tab runs its todos effect
OtherTabStep ==
  \/ Len(otherTab'.todos) = Len(otherTab.todos) /\ otherTab.open
       /\ \E id \in Ids : OtherTabToggle(id)
  \/ Len(otherTab'.todos) = Len(otherTab.todos) + 1 /\ OtherTabAdd
  \/ OtherTabLoad

\* C20: with two tabs on one store, every write of the tasks replaces the
\* whole stored collection with the collection of the tab that writes, with
\* no reading and no merging: after the todos effect of either tab has
\* written (a blank add runs no effect), the store holds exactly the writer's
\* collection, so the tasks the other tab has added since the writer loaded
\* are no longer in the store.
C20_LastWriterWins ==
  [][/\ (otherTab' # otherTab \/ (todos' = todos /\ lastOp' = lastOp
                                   /\ inputValue' = inputValue))
          => (OtherTabStep
                => localStorage'[STORAGE_ITEMS] = JSONstringify(otherTab'.todos))
     /\ (saved' /\ otherTab' = otherTab
           /\ (lastOp'.kind = "add" => HasText(lastOp'.input)) /\ TaskStep)
          => localStorage'[STORAGE_ITEMS] = JSONstringify(todos')]_vars

\* this tab added a task and wrote it; then the other tab, loaded before
\* that, wrote its own collection: the added task is no longer in the store
C20_Witness ==
  /\ otherTab.open
  /\ lastOp.kind = "add"
  /\ saved
  /\ Len(todos) = 1
  /\ Len(otherTab.todos) = 1
  /\ todos[1].id # otherTab.todos[1].id
  /\ localStorage[STORAGE_ITEMS] = JSONstringify(otherTab.todos)
  /\ loadTodos(localStorage, TRUE).items # todos
\* the task at position i is in the list the filter f lets through
Visible(c, i, f) ==
  \/ f = "all"
  \/ f = "active" /\ ~c[i].completed
  \/ f = "completed" /\ c[i].completed

\* C21: in every reachable state the empty-state placeholder is shown exactly
\* when no task is visible under the current filter, the footer with the
\* active count exactly when the collection is non-empty, and the
\* clear-completed control exactly when some task is completed.
C21_ViewMatchesCollection ==
  /\ EmptyStateShown <=> ~(\E i \in Positions(todos) : Visible(todos, i, filter))
  /\ FooterShown <=> (todos # <<>>)
  /\ ClearCompletedShown <=> (\E i \in Positions(todos) : todos[i].completed)

\* C22: a page load writes both records back before any user intent: while
\* no task operation has followed the load and localStorage has not thrown,
\* the task record is the serialization of what loadTodos returned (the
\* collection in memory; a non-array value loadTodos returned is the stored
\* text itself) and the theme record is the theme in memory, so a missing or
\* unrecognized theme value has been replaced.
C22_LoadWritesBack ==
  (lastOp.kind \in {"load", "reload"} /\ failures = 0) =>
    /\ crashed \/ localStorage[STORAGE_ITEMS] = JSONstringify(todos)
    /\ localStorage[STORAGE_THEME] = Str(theme)

\* C23: an add that is accepted leaves the input field empty, an add that is
\* rejected because the text is empty or all white space leaves the field as
\* it was, and toggle, delete, clearCompleted, the choice of a filter and the
\* theme toggle never change the field.
C23_InputFieldFrame ==
  [][/\ (lastOp'.kind = "add" /\ lastOp'.src \in {"button", "enter"}
           /\ addTodo(lastOp'.src))
          => inputValue' = (IF HasText(inputValue) THEN <<>> ELSE inputValue)
     /\ (inputValue' # inputValue)
          => ~(\/ lastOp'.kind = "toggle" /\ lastOp'.id \in Ids
                    /\ toggleTodo(lastOp'.id)
               \/ lastOp'.kind = "delete" /\ lastOp'.id \in Ids
                    /\ deleteTodo(lastOp'.id)
               \/ lastOp'.kind = "clear" /\ clearCompleted
               \/ setFilter(filter')
               \/ toggleTheme)]_vars

\* an accepted add has emptied the field that held " a "
C23_Witness ==
  /\ lastOp.kind = "add"
  /\ lastOp.input = <<" ", "a", " ">>
  /\ Len(todos) = Len(before) + 1
  /\ inputValue = <<>>
  /\ ~crashed

\* a rejected add has left the white space in the field
C23_WitnessRejected ==
  /\ lastOp.kind = "add"
  /\ lastOp.input = <<" ", "\t">>
  /\ todos = before
  /\ inputValue = <<" ", "\t">>

====
